---- MODULE Spec2Model ----
(***************************************************************************)
(* Model of the documentation retrieval engine, src/agent/rag_engine.py    *)
(* (class RAGEngine): corpus loading, the TF-IDF path, the keyword         *)
(* fallback path and the context assembler; of the deployer,               *)
(* src/agent/sf_deployer.py, and the delivery steps of main(),             *)
(* src/agent/main.py; and of the metadata cache and the interactive object *)
(* selection of src/agent/object_discoverer.py.                            *)
(*                                                                         *)
(* Strings are sequences of one-character strings, so that lower(),        *)
(* split(), slicing and len() are computed and not assumed.                *)
(***************************************************************************)
EXTENDS Integers, Sequences, FiniteSets, TLC

VARIABLES
    pc,           \* "new" before RAGEngine(...), "failed" when __init__ raised, "called" when an
                  \* operation has just ended and its outcome is with the caller, "ready" otherwise
    use_sklearn,  \* self.use_sklearn (SKLEARN_AVAILABLE at import time)
    docs,         \* self.docs
    vectorizer,   \* self.vectorizer: None, or a TfidfVectorizer (fitted or not)
    doc_vectors,  \* self.doc_vectors: None, or the matrix returned by fit_transform
    origin,       \* history: the file each of docs / vectorizer / doc_vectors was last written from
    call,         \* the last operation called on the engine, with its arguments and, as
                  \* history, the ranker that answered and the locals of the run
    ret,          \* its outcome: the value returned, or the exception raised
    lpc,          \* position of a load_docs call that runs statement by statement
    lfile,        \* that call's file and its local `contents`
    again,        \* the outcome of the same search called once more, None before that
    deployer,     \* the SalesforceDeployer: None before it is made, else its fields
    disk,         \* the project directory on disk: whether it exists and what was written in it
    cli,          \* the sf commands run so far
    made,         \* history: a create_project of this deployer has returned True
    dcall,        \* the last call on the deployer and what it returned
    mpc,          \* position of main() in the delivery steps, "off" while main is not running
    steps,        \* history: the delivery steps main has run, with their results
    target_org,   \* main's target_org: whether the discovery workflow has set it
    cache,        \* the files of the discoverer's cache directory: an entry, or None
    fetchlog,     \* history: every metadata fetch made so far, in order
    ocall,        \* the last call on the discoverer, with its arguments and what it returned
    spc,          \* position of select_object_interactive: "off", "prompt" or "returned"
    objects,      \* its local `objects`, sorted
    current_objects,  \* its local `current_objects`
    current_page, \* its local `current_page`
    choice,       \* the last answer given at its prompt
    selected      \* what it returned

engineVars == <<pc, use_sklearn, docs, vectorizer, doc_vectors, origin, call, ret, lpc, lfile, again>>
deployerVars == <<deployer, disk, cli, made, dcall>>
mainVars == <<mpc, steps, target_org>>
discovererVars == <<cache, fetchlog, ocall>>
selectorVars == <<spc, objects, current_objects, current_page, choice, selected>>
outside == <<deployerVars, mainVars, discovererVars, selectorVars>>

vars == <<engineVars, deployerVars, mainVars, discovererVars, selectorVars>>

None == [none |-> TRUE]

(***************************************************************************)
(* Bounds of the inputs.                                                   *)
(***************************************************************************)
MaxTopK == 3      \* top_k ranges over -MaxNegative .. MaxTopK
MaxCli == 3       \* the deployer runs at most MaxCli sf commands
MaxFetches == 3   \* the discoverer fetches metadata at most MaxFetches times
MaxObjects == 45  \* the org lists at most MaxObjects objects
MaxBetween == 1   \* at most MaxBetween other searches before a search is repeated
MaxNegative == 1  \* most negative top_k / max_length tried is -MaxNegative
MaxLength == 20   \* max_length ranges over -MaxNegative .. MaxLength, and the default
LongRepeat == 167 \* the long document's content is LongRepeat copies of a 3-character unit

(***************************************************************************)
(* Program constants.                                                      *)
(***************************************************************************)
ContextTopK == 5          \* get_relevant_context: self.search(query, top_k=5, ...)
ExcerptLength == 500      \* doc['content'][:500]
DefaultMaxLength == 2000  \* get_relevant_context(..., max_length=2000, ...)
PerPage == 20             \* select_object_interactive: per_page = 20
ThresholdDen == 10        \* the threshold 0.1 of both rankers is 1 / ThresholdDen

(***************************************************************************)
(* Python strings and slices.                                              *)
(***************************************************************************)
Min(a, b) == IF a < b THEN a ELSE b
Max(a, b) == IF a > b THEN a ELSE b

\* s[:k] of Python: the first k items for k >= 0, all but the last -k for k < 0.
\* Variant of SliceTo that stops one element early.
SliceToOneShort(s, k) ==
    IF k >= 1 THEN SubSeq(s, 1, Min(k - 1, Len(s))) ELSE <<>>

SliceTo(s, k) ==
    IF k >= 0 THEN SubSeq(s, 1, Min(k, Len(s)))
    ELSE SubSeq(s, 1, Max(Len(s) + k, 0))

\* s[::-1]
\* Variant of Reversed that leaves the order as it is.
NotReversed(s) == s

Reversed(s) == [i \in 1..Len(s) |-> s[Len(s) + 1 - i]]

IsSpace(c) == c \in {" ", "\n", "\t"}

UpperLetters ==
    <<"A", "B", "C", "D", "E", "F", "G", "H", "I", "J", "K", "L", "M",
      "N", "O", "P", "Q", "R", "S", "T", "U", "V", "W", "X", "Y", "Z">>
LowerLetters ==
    <<"a", "b", "c", "d", "e", "f", "g", "h", "i", "j", "k", "l", "m",
      "n", "o", "p", "q", "r", "s", "t", "u", "v", "w", "x", "y", "z">>
Digits == {"0", "1", "2", "3", "4", "5", "6", "7", "8", "9"}
ScenarioDigits == <<"1", "2", "3", "4", "5", "6">>

LowerChar(c) ==
    IF \E k \in DOMAIN UpperLetters : UpperLetters[k] = c
    THEN LowerLetters[CHOOSE k \in DOMAIN UpperLetters : UpperLetters[k] = c]
    ELSE c

\* str.lower()
Lower(s) == [i \in 1..Len(s) |-> LowerChar(s[i])]

\* str.split(): the maximal runs of non-whitespace characters, in order.
\* The words of s[lo..hi], by halves: a run that crosses the middle is the
\* last word of the left half joined to the first word of the right half.
RECURSIVE SplitRange(_, _, _)
SplitRange(s, lo, hi) ==
    IF lo > hi THEN <<>>
    ELSE IF lo = hi THEN IF IsSpace(s[lo]) THEN <<>> ELSE <<(<<s[lo]>>)>>
    ELSE LET mid == (lo + hi) \div 2
             left == SplitRange(s, lo, mid)
             right == SplitRange(s, mid + 1, hi)
         IN  IF ~IsSpace(s[mid]) /\ ~IsSpace(s[mid + 1])
             THEN SubSeq(left, 1, Len(left) - 1) \o <<left[Len(left)] \o right[1]>> \o Tail(right)
             ELSE left \o right

Split(s) == SplitRange(s, 1, Len(s))

Range(s) == {s[i] : i \in DOMAIN s}

\* set(text.lower().split())
WordSet(s) == Range(Split(Lower(s)))

\* unit * n
Repeat(unit, n) == [i \in 1..(Len(unit) * n) |-> unit[((i - 1) % Len(unit)) + 1]]

(***************************************************************************)
(* The documents and corpus files the engine is run on.                    *)
(***************************************************************************)
sAb == <<"A", "b">>
sX == <<"x">>
sCd == <<"c", "d">>
sTo == <<"t", "o">>
sCdAb == <<"c", "d", " ", "a", "b">>
sAbCd == <<"a", "b", " ", " ", "c", "d">>
sXTo == <<"x", " ", "t", "o">>
sLong == Repeat(<<"a", "b", " ">>, LongRepeat)

DocAb == [title |-> sAb, content |-> sCdAb]
DocX == [title |-> sX, content |-> sAbCd]
DocCd == [title |-> sCd, content |-> sXTo]
DocLong == [title |-> sAb, content |-> sLong]
DocNoContent == [title |-> sCd]

\* The two documents of the specification's retrieval scenarios.
sBadges == <<"B", "a", "d", "g", "e", "s">>
sBadgesContent ==
    <<"U", "s", "e", " ", "a", " ", "b", "a", "d", "g", "e", " ", "c",
      "o", "m", "p", "o", "n", "e", "n", "t", " ", "t", "o", " ", "s",
      "h", "o", "w", " ", "s", "t", "a", "t", "u", "s", " ", "v", "a",
      "l", "u", "e", "s", ".">>
sCurrency == <<"C", "u", "r", "r", "e", "n", "c", "y">>
sCurrencyContent ==
    <<"F", "o", "r", "m", "a", "t", " ", "c", "u", "r", "r", "e", "n",
      "c", "y", " ", "u", "s", "i", "n", "g", " ", "a", " ", "n", "u",
      "m", "b", "e", "r", " ", "c", "o", "m", "p", "o", "n", "e", "n",
      "t", ".">>
sStatusBadge == <<"s", "t", "a", "t", "u", "s", " ", "b", "a", "d", "g", "e">>

DocBadges == [title |-> sBadges, content |-> sBadgesContent]
DocCurrency == [title |-> sCurrency, content |-> sCurrencyContent]

\* Six documents with one title, told apart by a digit; their words are
\* too short to be terms of the vectorizer.
sGh == <<"g", " ", "h">>
DocGh(n) == [title |-> sX, content |-> sGh \o <<" ">> \o <<ScenarioDigits[n]>>]

\* A corpus file: absent, present but not JSON, or a JSON list of records.
Files ==
    { [id |-> "missing",   exists |-> FALSE, json |-> FALSE, records |-> <<>>],
      [id |-> "garbled",   exists |-> TRUE,  json |-> FALSE, records |-> <<>>],
      [id |-> "empty",     exists |-> TRUE,  json |-> TRUE,  records |-> <<>>],
      [id |-> "triple",    exists |-> TRUE,  json |-> TRUE,  records |-> <<DocAb, DocX, DocCd>>],
      [id |-> "long",      exists |-> TRUE,  json |-> TRUE,  records |-> <<DocLong, DocLong>>],
      [id |-> "nocontent", exists |-> TRUE,  json |-> TRUE,  records |-> <<DocX, DocNoContent>>],
      [id |-> "stopwords", exists |-> TRUE,  json |-> TRUE,  records |-> <<DocCd>>],
      [id |-> "titleonly", exists |-> TRUE,  json |-> TRUE,  records |-> <<DocNoContent>>],
      [id |-> "badges",    exists |-> TRUE,  json |-> TRUE,  records |-> <<DocBadges, DocCurrency>>],
      [id |-> "six",       exists |-> TRUE,  json |-> TRUE,
       records |-> [n \in DOMAIN ScenarioDigits |-> DocGh(n)]] }

Queries ==
    { <<"a", "b">>,
      <<"A", "B", " ", "c", "d">>,
      <<" ">>,
      <<"e", "e">>,
      sStatusBadge,
      <<"x", " ", "b", " ", "c", " ", "d", " ", "e", " ", "f", " ", "g", " ", "h", " ", "i", " ", "j">> }

TopKs == (0 - MaxNegative) .. MaxTopK
MaxLengths == ((0 - MaxNegative) .. MaxLength) \cup {DefaultMaxLength}

(***************************************************************************)
(* Scores.  A score is kept as an exact fraction num / den with den > 0.   *)
(* The keyword ranker's scores are fractions over the number of query      *)
(* words; the queries above have 1, 2 or 10 words and at most one matching *)
(* word among 10, for which the floating-point evaluation of the code      *)
(* orders the scores as the fractions do.                                  *)
(***************************************************************************)
Frac(n, d) == [num |-> n, den |-> d]
FracGT(x, y) == x.num * y.den > y.num * x.den
FracEQ(x, y) == x.num * y.den = y.num * x.den

\* Variant of AboveThreshold that lets a score of exactly 0.1 through.
AtLeastThreshold(score) == score.num * ThresholdDen >= score.den

\* score > 0.1
AboveThreshold(score) == score.num * ThresholdDen > score.den

Return(v) == [kind |-> "return", value |-> v]
Raise(e) == [kind |-> "raise", exc |-> e]

(***************************************************************************)
(* scikit-learn, as far as the engine uses it.                             *)
(*   TfidfVectorizer(max_features=1000, stop_words='english'): the         *)
(*   analyzer lowercases, takes the runs of two or more word characters    *)
(*   and drops the stop words; fit_transform raises ValueError on an       *)
(*   empty vocabulary and otherwise returns one row per document.  The     *)
(*   pool's vocabularies stay far below max_features.  A row is kept as    *)
(*   the term counts of its document; the weights of the real row are a    *)
(*   function of these counts and of the fitted document frequencies.      *)
(***************************************************************************)
StopWords == {sTo, <<"a">>, <<"s", "h", "o", "w">>}

IsToken(w) == Len(w) >= 2 /\ w \notin StopWords

\* \w of the token pattern
IsWordChar(c) ==
    \/ \E k \in DOMAIN LowerLetters : c \in {LowerLetters[k], UpperLetters[k]}
    \/ c \in Digits
    \/ c = "_"

\* The runs of word characters: every other character separates like a space.
WordRuns(s) == Split([i \in 1..Len(s) |-> IF IsWordChar(s[i]) THEN s[i] ELSE " "])

Analyze(s) == SelectSeq(WordRuns(Lower(s)), IsToken)

Count(seq, t) == Cardinality({i \in DOMAIN seq : seq[i] = t})

Vocabulary(contents) == UNION {Range(Analyze(contents[i])) : i \in DOMAIN contents}

Unfitted == [fitted |-> FALSE]

\* The vectorizer after a successful fit: vocabulary_ and the document frequencies behind idf_.
Fitted(contents) ==
    LET V == Vocabulary(contents) IN
    [fitted |-> TRUE,
     vocabulary |-> V,
     n |-> Len(contents),
     df |-> [t \in V |-> Cardinality({i \in DOMAIN contents : Count(Analyze(contents[i]), t) > 0})]]

\* The matrix fit_transform returns.
Rows(contents) ==
    LET V == Vocabulary(contents) IN
    [i \in DOMAIN contents |-> [t \in V |-> Count(Analyze(contents[i]), t)]]

\* vectorizer.transform([query]): the query's counts over the fitted vocabulary.
Transform(vec, query) == [t \in vec.vocabulary |-> Count(Analyze(query), t)]

SimLevels == {Frac(0, 20), Frac(1, 20), Frac(2, 20), Frac(4, 20), Frac(10, 20), Frac(20, 20)}

SharesTerm(qv, row) == \E t \in (DOMAIN qv) \cap (DOMAIN row) : qv[t] > 0 /\ row[t] > 0

\* The dot product of two count vectors over the terms they both have.
RECURSIVE DotOver(_, _, _)
DotOver(u, v, terms) ==
    IF terms = {} THEN 0
    ELSE LET t == CHOOSE x \in terms : TRUE IN u[t] * v[t] + DotOver(u, v, terms \ {t})

Dot(u, v) == DotOver(u, v, (DOMAIN u) \cap (DOMAIN v))

\* An integer at or above (1 + ln((1 + n) / 2)) ^ 4.  With smooth_idf the
\* weight of a term is idf = ln((1 + n) / (1 + df)) + 1 with 1 <= df <= n,
\* hence 1 <= idf <= 1 + ln((1 + n) / 2) for a fit on n documents.
IdfBound4(n) ==
    IF n <= 1 THEN 1
    ELSE IF n <= 2 THEN 4
    ELSE IF n <= 3 THEN 9
    ELSE IF n <= 6 THEN 26
    ELSE n * n * n * n

\* The cosine of the weighted vectors is at least the cosine of the counts
\* divided by the square of the largest idf:
\*   cos ^ 2 * idfmax ^ 4 * |u| ^ 2 * |v| ^ 2 >= (u . v) ^ 2
CosineAtLeast(sim, u, v, n) ==
    sim.num * sim.num * IdfBound4(n) * Dot(u, u) * Dot(v, v) >= sim.den * sim.den * Dot(u, v) * Dot(u, v)

\* The outcomes cosine_similarity(query_vector, matrix)[0] can have, the
\* weights coming from fits on at most n documents: one value per row, 0
\* exactly for the rows sharing no term with the query, equal for equal rows,
\* and no lower than the counts allow.  When the matrix comes from another
\* fit with a different vocabulary of the same size the columns do not line up
\* and any values result.
CosineOutcomes(qv, matrix, n) ==
    IF DOMAIN qv = DOMAIN matrix[1]
    THEN { s \in [DOMAIN matrix -> SimLevels] :
             /\ \A i \in DOMAIN matrix : (s[i].num = 0) <=> ~SharesTerm(qv, matrix[i])
             /\ \A i \in DOMAIN matrix : CosineAtLeast(s[i], qv, matrix[i], n)
             /\ \A i, j \in DOMAIN matrix : matrix[i] = matrix[j] => s[i] = s[j] }
    ELSE [DOMAIN matrix -> SimLevels]

\* The orders that list the ordinals in `left` by ascending value.
RECURSIVE AscendingOrders(_, _)
AscendingOrders(sims, left) ==
    IF left = {} THEN {<<>>}
    ELSE UNION { { <<i>> \o rest : rest \in AscendingOrders(sims, left \ {i}) }
                 : i \in {j \in left : \A k \in left : ~FracGT(sims[j], sims[k])} }

\* The outcomes np.argsort(similarities) can have.  The default kind is
\* quicksort, which is not stable: any permutation that puts the values in
\* ascending order.
ArgsortOutcomes(sims) == AscendingOrders(sims, DOMAIN sims)

(***************************************************************************)
(* RAGEngine.load_docs, statement by statement.                            *)
(***************************************************************************)
\* open(self.docs_path) and json.load(f), lines 31-32
\* Variant of JsonLoad that puts the records read after the documents held.
JsonLoadMerged(f) ==
    IF ~f.exists THEN Raise("FileNotFoundError")
    ELSE IF ~f.json THEN Raise("JSONDecodeError")
    ELSE Return(docs \o f.records)

JsonLoad(f) ==
    IF ~f.exists THEN Raise("FileNotFoundError")
    ELSE IF ~f.json THEN Raise("JSONDecodeError")
    ELSE Return(f.records)

\* [doc['content'] for doc in self.docs], line 36
Contents(ds) ==
    IF \E i \in DOMAIN ds : "content" \notin DOMAIN ds[i]
    THEN Raise("KeyError")
    ELSE Return([i \in DOMAIN ds |-> ds[i].content])

\* self.vectorizer.fit_transform(contents), line 38
FitTransform(contents) ==
    IF Vocabulary(contents) = {}
    THEN Raise("ValueError")
    ELSE Return([vectorizer |-> Fitted(contents), matrix |-> Rows(contents)])

\* The whole of load_docs on file f: the fields it leaves and its outcome.
load_docs(f, uses, ds, vec, dv) ==
    LET loaded == JsonLoad(f) IN
    IF loaded.kind = "raise"
    THEN [docs |-> ds, vectorizer |-> vec, doc_vectors |-> dv, wrote |-> {}, ret |-> loaded]
    ELSE IF ~(uses /\ loaded.value # <<>>)
    THEN [docs |-> loaded.value, vectorizer |-> vec, doc_vectors |-> dv,
          wrote |-> {"docs"}, ret |-> Return(None)]
    ELSE LET contents == Contents(loaded.value) IN
         IF contents.kind = "raise"
         THEN [docs |-> loaded.value, vectorizer |-> vec, doc_vectors |-> dv,
               wrote |-> {"docs"}, ret |-> contents]
         ELSE LET fit == FitTransform(contents.value) IN
              IF fit.kind = "raise"
              THEN [docs |-> loaded.value, vectorizer |-> Unfitted, doc_vectors |-> dv,
                    wrote |-> {"docs", "vectorizer"}, ret |-> fit]
              ELSE [docs |-> loaded.value, vectorizer |-> fit.value.vectorizer,
                    doc_vectors |-> fit.value.matrix,
                    wrote |-> {"docs", "vectorizer", "doc_vectors"}, ret |-> Return(None)]

\* The history variable: the fields in `wrote` now come from file id.
Stamp(o, wrote, id) == [k \in DOMAIN o |-> IF k \in wrote THEN id ELSE o[k]]

(***************************************************************************)
(* RAGEngine._simple_search                                                *)
(***************************************************************************)
\* total_score of one document, lines 46-53
\* Variant of SimpleScore that counts a title match once.
SimpleScoreTitleOnce(query_words, doc) ==
    LET content_words == WordSet(doc.content)
        title_words == WordSet(doc.title)
        n == Max(Cardinality(query_words), 1)
    IN  Frac(Cardinality(query_words \cap content_words)
                + Cardinality(query_words \cap title_words), n)

SimpleScore(query_words, doc) ==
    LET content_words == WordSet(doc.content)
        title_words == WordSet(doc.title)
        n == Max(Cardinality(query_words), 1)
    IN  Frac(Cardinality(query_words \cap content_words)
                + 2 * Cardinality(query_words \cap title_words), n)

\* list.sort(key=score, reverse=True): descending, and stable, so that items
\* of equal score keep their order.  Insertion of each item after the items
\* that are not smaller.
RECURSIVE InsertDesc(_, _)
InsertDesc(sorted, item) ==
    IF sorted = <<>> THEN <<item>>
    ELSE IF FracGT(item.score, Head(sorted).score)
         THEN <<item>> \o sorted
         ELSE <<Head(sorted)>> \o InsertDesc(Tail(sorted), item)

RECURSIVE SortDescFrom(_, _, _)
SortDescFrom(items, i, sorted) ==
    IF i > Len(items) THEN sorted
    ELSE SortDescFrom(items, i + 1, InsertDesc(sorted, items[i]))

\* Variant of SortDesc that sorts ascending and reverses, which turns the ties around.
SortDescTiesReversed(items) == SortDescFrom(Reversed(items), 1, <<>>)

SortDesc(items) == SortDescFrom(items, 1, <<>>)

\* The results loop of both rankers: the entries above the threshold, in order.
\* An entry carries the ordinal idx of its document next to doc and score.
Thresholded(ds, picked) ==
    LET kept == SelectSeq(picked, LAMBDA e : AboveThreshold(e.score)) IN
    [i \in DOMAIN kept |-> [doc |-> ds[kept[i].idx], score |-> kept[i].score, idx |-> kept[i].idx]]

_simple_search(ds, query, top_k) ==
    IF \E i \in DOMAIN ds : {"content", "title"} \ DOMAIN ds[i] # {}
    THEN Raise("KeyError")
    ELSE LET query_words == WordSet(query)
             scores == [i \in DOMAIN ds |-> [idx |-> i, score |-> SimpleScore(query_words, ds[i])]]
         IN  Return(Thresholded(ds, SliceTo(SortDesc(scores), top_k)))

(***************************************************************************)
(* RAGEngine._sklearn_search.  The values cosine_similarity and argsort    *)
(* give are inputs of the operator: sims in SimilarityOutcomes, order in   *)
(* ArgsortOutcomes(sims).                                                  *)
(***************************************************************************)
\* What line 85 and the call of line 88 do before any value is produced.
SklearnFault(vec, dv) ==
    IF vec = None THEN "AttributeError"
    ELSE IF ~vec.fitted THEN "NotFittedError"
    ELSE IF dv # None /\ Cardinality(DOMAIN dv[1]) # Cardinality(vec.vocabulary) THEN "ValueError"
    ELSE "none"

\* cosine_similarity(query_vector, self.doc_vectors)[0]; with doc_vectors
\* None the query is compared with itself.
SimilarityOutcomes(vec, dv, query) ==
    LET qv == Transform(vec, query) IN
    IF dv = None
    THEN CosineOutcomes(qv, <<qv>>, vec.n)
    ELSE CosineOutcomes(qv, dv, Max(vec.n, Len(dv)))

\* Variant of _sklearn_search whose verbose run keeps the entries at or
\* below the threshold.
_sklearn_searchVerboseKeepsAll(ds, sims, order, top_k, verbose) ==
    LET top_indices == SliceTo(Reversed(order), top_k)
        picked == [i \in DOMAIN top_indices |-> [idx |-> top_indices[i], score |-> sims[top_indices[i]]]]
    IN  IF \E i \in DOMAIN picked : picked[i].idx > Len(ds)
        THEN Raise("IndexError")
        ELSE IF verbose
        THEN Return([i \in DOMAIN picked |->
                       [doc |-> ds[picked[i].idx], score |-> picked[i].score, idx |-> picked[i].idx]])
        ELSE Return(Thresholded(ds, picked))

\* Variant of _sklearn_search that reads a position beyond the corpus as
\* the last document.
_sklearn_searchClamped(ds, sims, order, top_k, verbose) ==
    LET top_indices == SliceTo(Reversed(order), top_k)
        picked == [i \in DOMAIN top_indices |->
                     [idx |-> Min(top_indices[i], Len(ds)), score |-> sims[top_indices[i]]]]
    IN  Return(Thresholded(ds, picked))

\* verbose only reaches the console.print of lines 101-102 (see Console).
_sklearn_search(ds, sims, order, top_k, verbose) ==
    LET top_indices == SliceTo(Reversed(order), top_k)
        picked == [i \in DOMAIN top_indices |-> [idx |-> top_indices[i], score |-> sims[top_indices[i]]]]
    IN  IF \E i \in DOMAIN picked : AboveThreshold(picked[i].score) /\ picked[i].idx > Len(ds)
        THEN Raise("IndexError")
        ELSE Return(Thresholded(ds, picked))

(***************************************************************************)
(* RAGEngine.get_relevant_context, lines 110-120, on the results of search *)
(***************************************************************************)
Heading(title) == <<"\n", "\n", "#", "#", " ">> \o title \o <<"\n">>
\* Variant of Excerpt that marks only a content that was cut.
ExcerptMarkedWhenCut(content) ==
    IF Len(content) > ExcerptLength
    THEN SubSeq(content, 1, ExcerptLength) \o <<".", ".", ".", "\n">>
    ELSE content \o <<"\n">>

Excerpt(content) == SliceTo(content, ExcerptLength) \o <<".", ".", ".", "\n">>

\* The loop of lines 111-118 from result i on, with the context built so far.
RECURSIVE AssembleFrom(_, _, _, _)
\* Variant of AssembleFrom whose loop never breaks.
RECURSIVE AssembleFromNoBreak(_, _, _, _)
AssembleFromNoBreak(results, i, context, max_length) ==
    IF i > Len(results) THEN Return(context)
    ELSE LET doc == results[i].doc IN
         IF {"title", "content"} \ DOMAIN doc # {} THEN Raise("KeyError")
         ELSE AssembleFromNoBreak(results, i + 1, context \o Heading(doc.title) \o Excerpt(doc.content),
                                  max_length)

AssembleFrom(results, i, context, max_length) ==
    IF i > Len(results) THEN Return(context)
    ELSE LET doc == results[i].doc IN
         IF {"title", "content"} \ DOMAIN doc # {} THEN Raise("KeyError")
         ELSE LET grown == context \o Heading(doc.title) \o Excerpt(doc.content) IN
              IF Len(grown) >= max_length THEN Return(grown)
              ELSE AssembleFrom(results, i + 1, grown, max_length)

\* Variant of Assemble that keeps the last max_length characters.
AssembleKeepsTail(results, max_length) ==
    LET built == AssembleFrom(results, 1, <<>>, max_length) IN
    IF built.kind = "raise" THEN built
    ELSE Return(SubSeq(built.value, Max(Len(built.value) - Max(max_length, 0), 0) + 1, Len(built.value)))

Assemble(results, max_length) ==
    LET built == AssembleFrom(results, 1, <<>>, max_length) IN
    IF built.kind = "raise" THEN built ELSE Return(SliceTo(built.value, max_length))

(***************************************************************************)
(* RAGEngine.search: the outcomes a call can have in the current state.    *)
(***************************************************************************)
\* Variant of search without the test for an empty corpus.
searchUnguarded(query, top_k, verbose) ==
    IF use_sklearn
    THEN IF SklearnFault(vectorizer, doc_vectors) # "none"
         THEN {Raise(SklearnFault(vectorizer, doc_vectors))}
         ELSE UNION { { _sklearn_search(docs, sims, order, top_k, verbose) : order \in ArgsortOutcomes(sims) }
                      : sims \in SimilarityOutcomes(vectorizer, doc_vectors, query) }
    ELSE {_simple_search(docs, query, top_k)}

\* Variant of Dispatch that answers by keywords while no index is held.
DispatchByIndex ==
    IF docs = <<>> THEN "empty"
    ELSE IF use_sklearn /\ vectorizer # None THEN "_sklearn_search"
    ELSE "_simple_search"

\* Lines 71-80: who answers a search in the current state.
Dispatch ==
    IF docs = <<>> THEN "empty"
    ELSE IF use_sklearn THEN "_sklearn_search"
    ELSE "_simple_search"

search(query, top_k, verbose) ==
    IF Dispatch = "empty" THEN {Return(<<>>)}
    ELSE IF Dispatch = "_sklearn_search"
    THEN IF SklearnFault(vectorizer, doc_vectors) # "none"
         THEN {Raise(SklearnFault(vectorizer, doc_vectors))}
         ELSE UNION { { _sklearn_search(docs, sims, order, top_k, verbose) : order \in ArgsortOutcomes(sims) }
                      : sims \in SimilarityOutcomes(vectorizer, doc_vectors, query) }
    ELSE {_simple_search(docs, query, top_k)}

\* The values the local `similarities` of line 88 can have had in a search
\* with the given outcome; empty when line 88 was not reached.
Similarities(query, top_k, verbose, outcome) ==
    IF Dispatch = "_sklearn_search" /\ SklearnFault(vectorizer, doc_vectors) = "none"
    THEN { sims \in SimilarityOutcomes(vectorizer, doc_vectors, query) :
             \E order \in ArgsortOutcomes(sims) : _sklearn_search(docs, sims, order, top_k, verbose) = outcome }
    ELSE {<<>>}

\* The values the local `top_indices` of line 91 can have had in a search
\* with these similarities and this outcome; None when line 91 was not reached.
TopIndices(sims, top_k, verbose, outcome) ==
    IF sims = <<>> THEN {None}
    ELSE { SliceTo(Reversed(order), top_k) :
             order \in {o \in ArgsortOutcomes(sims) : _sklearn_search(docs, sims, o, top_k, verbose) = outcome} }

\* What a search with this outcome printed: lines 72-73 and 101-102.
Console(verbose, outcome) ==
    IF ~verbose THEN <<>>
    ELSE IF Dispatch = "empty" THEN <<"No documentation loaded">>
    ELSE IF Dispatch = "_sklearn_search" /\ outcome.kind = "return"
    THEN <<[found |-> Len(outcome.value)]>>
    ELSE <<>>

\* Lines 108-120 on the outcome r of the search of line 108.
Context(r, max_length) == IF r.kind = "raise" THEN r ELSE Assemble(r.value, max_length)

get_relevant_context(query, max_length, verbose) ==
    { Context(r, max_length) : r \in search(query, ContextTopK, verbose) }

\* The local `context` when the loop of lines 113-118 is left; None when the
\* loop was not entered.
LoopContext(r, max_length) ==
    IF r.kind = "raise" \/ r.value = <<>> THEN None
    ELSE AssembleFrom(r.value, 1, <<>>, max_length)

\* Variant of AfterTransform in which transform fits the vectorizer on the query.
AfterTransformRefitted(vec, query) ==
    IF vec.fitted /\ Vocabulary(<<query>>) # {} THEN Fitted(<<query>>) ELSE vec

\* self.vectorizer after self.vectorizer.transform([query]), line 85: the
\* query is projected onto the fitted vocabulary and the vectorizer stays
\* as it is.
AfterTransform(vec, query) == vec

\* self.vectorizer after a search of the query in the current state; line 85
\* is the only statement of the query operations that hands a field of the
\* engine to code that could write it.
VectorizerAfter(query) ==
    IF Dispatch = "_sklearn_search" /\ vectorizer # None
    THEN AfterTransform(vectorizer, query)
    ELSE vectorizer

\* self.vectorizer after searches of the given queries, one after the other.
RECURSIVE AfterAllFrom(_, _, _)
AfterAllFrom(vec, queries, i) ==
    IF i > Len(queries) \/ Dispatch # "_sklearn_search" \/ vec = None THEN vec
    ELSE AfterAllFrom(AfterTransform(vec, queries[i]), queries, i + 1)

VectorizerAfterAll(queries) == AfterAllFrom(vectorizer, queries, 1)

\* Variant of searchAgain in which the library may answer a repeated
\* computation differently.
searchAgainUnrelated(query, top_k, verbose, similarities, top_indices) ==
    search(query, top_k, verbose)

\* search called once more in the same state.  cosine_similarity and
\* np.argsort are functions of their arguments: on the same vectors they
\* give the same `similarities` and the same `top_indices` as before.
searchAgain(query, top_k, verbose, similarities, top_indices) ==
    IF similarities = <<>> THEN search(query, top_k, verbose)
    ELSE { _sklearn_search(docs, similarities, order, top_k, verbose) :
             order \in {o \in ArgsortOutcomes(similarities) : SliceTo(Reversed(o), top_k) = top_indices} }

(***************************************************************************)
(* The state machine.                                                      *)
(***************************************************************************)
NoFile == [id |-> "none", contents |-> <<>>]

(***************************************************************************)
(* The metadata cache of ObjectDiscoverer, src/agent/object_discoverer.py. *)
(* Org aliases and object names are strings; both may hold underscores.    *)
(***************************************************************************)
OrgAliases == {<<"d">>, <<"d", "_", "X">>}
ObjectNames == {<<"Y">>, <<"X", "_", "Y">>}

\* self.cache_dir / f"{org_alias}_{object_name}.json", lines 28 and 382
cache_file(org_alias, object_name) ==
    org_alias \o <<"_">> \o object_name \o <<".", "j", "s", "o", "n">>

CacheFiles == {cache_file(o, n) : o \in OrgAliases, n \in ObjectNames}

\* _fetch_object_metadata, lines 66-100: the description of the object in
\* that org as it is at this fetch, or None when the command fails, reports
\* an error or raises.  The description is made of JSON values only (it is
\* built from json.loads at line 83), so json.dump and json.load give it
\* back as it was.
_fetch_object_metadata(object_name, org_alias, how) ==
    IF how = "ok"
    THEN [name |-> object_name, org |-> org_alias, rev |-> Len(fetchlog) + 1]
    ELSE None

Fetch(object_name, org_alias, metadata) ==
    [object_name |-> object_name, org_alias |-> org_alias, metadata |-> metadata]

\* discover_object, lines 19-64.  cached_at is the time of the fetch.
discover_object(object_name, org_alias, use_cache, how) ==
    LET file == cache_file(org_alias, object_name)
        metadata == _fetch_object_metadata(object_name, org_alias, how)
    IN  IF use_cache /\ cache[file] # None
        THEN [cache |-> cache, fetchlog |-> fetchlog, ret |-> cache[file].metadata]
        ELSE [cache |-> [cache EXCEPT ![file] =
                           [cached_at |-> Len(fetchlog) + 1, object_name |-> object_name,
                            org_alias |-> org_alias, metadata |-> metadata]],
              fetchlog |-> Append(fetchlog, Fetch(object_name, org_alias, metadata)),
              ret |-> metadata]

\* clear_cache, lines 379-390; an argument left out (None) or empty is <<>>.
clear_cache(org_alias, object_name) ==
    IF org_alias # <<>> /\ object_name # <<>>
    THEN [cache EXCEPT ![cache_file(org_alias, object_name)] = None]
    ELSE [f \in CacheFiles |-> None]

Init ==
    /\ pc = "new"
    /\ use_sklearn \in BOOLEAN
    /\ docs = <<>>
    /\ vectorizer = None
    /\ doc_vectors = None
    /\ origin = [docs |-> "none", vectorizer |-> "none", doc_vectors |-> "none"]
    /\ call = [op |-> "none"]
    /\ ret = Return(None)
    /\ lpc = "idle"
    /\ lfile = NoFile
    /\ again = None
    /\ deployer = None
    /\ disk = [exists |-> FALSE, files |-> "none"]
    /\ cli = <<>>
    /\ made = FALSE
    /\ dcall = [op |-> "none", n |-> 0]
    /\ mpc = "off"
    /\ steps = <<>>
    /\ target_org = FALSE
    /\ cache = [f \in CacheFiles |-> None]
    /\ fetchlog = <<>>
    /\ ocall = [op |-> "none", n |-> 0]
    /\ spc = "off"
    /\ objects = <<>>
    /\ current_objects = <<>>
    /\ current_page = 1
    /\ choice = <<>>
    /\ selected = None

\* RAGEngine(docs_path), lines 19-27, on a path that holds file f.
Construct(f) ==
    /\ pc = "new"
    /\ call' = [op |-> "__init__", file |-> f.id]
    /\ IF ~f.exists
       THEN /\ pc' = "called"
            /\ ret' = Return(None)
            /\ UNCHANGED <<docs, vectorizer, doc_vectors, origin>>
       ELSE LET r == load_docs(f, use_sklearn, docs, vectorizer, doc_vectors) IN
            /\ pc' = IF r.ret.kind = "raise" THEN "failed" ELSE "called"
            /\ ret' = r.ret
            /\ docs' = r.docs
            /\ vectorizer' = r.vectorizer
            /\ doc_vectors' = r.doc_vectors
            /\ origin' = Stamp(origin, r.wrote, f.id)
    /\ UNCHANGED <<use_sklearn, lpc, lfile>>
    /\ UNCHANGED again
    /\ UNCHANGED outside

\* engine.load_docs() run to its end, the path holding file f at that time.
LoadDocs(f) ==
    /\ pc = "ready"
    /\ lpc = "idle"
    /\ LET r == load_docs(f, use_sklearn, docs, vectorizer, doc_vectors) IN
       /\ ret' = r.ret
       /\ docs' = r.docs
       /\ vectorizer' = r.vectorizer
       /\ doc_vectors' = r.doc_vectors
       /\ origin' = Stamp(origin, r.wrote, f.id)
    /\ call' = [op |-> "load_docs", file |-> f.id]
    /\ pc' = "called"
    /\ UNCHANGED <<use_sklearn, lpc, lfile>>
    /\ UNCHANGED again
    /\ UNCHANGED outside

\* engine.search(query, top_k, verbose)
Search(query, top_k, verbose) ==
    /\ pc = "ready"
    /\ ret' \in search(query, top_k, verbose)
    /\ \E sims \in Similarities(query, top_k, verbose, ret') :
          \E top \in TopIndices(sims, top_k, verbose, ret') :
             call' = [op |-> "search", query |-> query, top_k |-> top_k, verbose |-> verbose,
                      by |-> Dispatch, similarities |-> sims, top_indices |-> top,
                      printed |-> Console(verbose, ret')]
    /\ pc' = "called"
    /\ vectorizer' = VectorizerAfter(query)
    /\ UNCHANGED <<use_sklearn, docs, doc_vectors, origin, lpc, lfile, again>>
    /\ UNCHANGED outside

\* engine.get_relevant_context(query, max_length, verbose)
GetRelevantContext(query, max_length, verbose) ==
    /\ pc = "ready"
    /\ ret' \in get_relevant_context(query, max_length, verbose)
    /\ \E r \in {x \in search(query, ContextTopK, verbose) : Context(x, max_length) = ret'} :
          call' = [op |-> "get_relevant_context", query |-> query, max_length |-> max_length,
                   verbose |-> verbose, by |-> Dispatch, results |-> r,
                   context |-> LoopContext(r, max_length), printed |-> Console(verbose, r)]
    /\ pc' = "called"
    /\ vectorizer' = VectorizerAfter(query)
    /\ UNCHANGED <<use_sklearn, docs, doc_vectors, origin, lpc, lfile, again>>
    /\ UNCHANGED outside

\* The caller repeats the search it has just made, with the same arguments
\* and no load_docs before it; `between` other searches are made first.
SearchAgain(between) ==
    /\ pc = "called"
    /\ call.op = "search"
    /\ lpc = "idle"
    /\ \E others \in [1..between -> Queries] :
          /\ vectorizer' = VectorizerAfterAll(others)
          /\ \E r \in searchAgain(call.query, call.top_k, call.verbose,
                                    call.similarities, call.top_indices) :
                again' = [outcome |-> r, between |-> between]
    /\ pc' = "repeated"
    /\ UNCHANGED <<use_sklearn, docs, doc_vectors, origin, call, ret, lpc, lfile>>
    /\ UNCHANGED outside

\* The caller takes the outcome of the operation and goes on.
Resume ==
    /\ pc \in {"called", "repeated"}
    /\ pc' = "ready"
    /\ call' = [op |-> "none"]
    /\ ret' = Return(None)
    /\ again' = None
    /\ UNCHANGED <<use_sklearn, docs, vectorizer, doc_vectors, origin, lpc, lfile>>
    /\ UNCHANGED outside

Next ==
    \/ \E f \in Files : Construct(f)
    \/ \E f \in Files : LoadDocs(f)
    \/ \E q \in Queries, k \in TopKs, v \in BOOLEAN : Search(q, k, v)
    \/ \E q \in Queries, m \in MaxLengths, v \in BOOLEAN : GetRelevantContext(q, m, v)
    \/ \E b \in 0..MaxBetween : SearchAgain(b)
    \/ Resume

Spec == Init /\ [][Next]_vars

(***************************************************************************)
(* load_docs run one statement at a time, next to a reader that calls      *)
(* search and get_relevant_context on the same engine.                     *)
(***************************************************************************)
\* lines 31-32: open, json.load, self.docs = ...
LoadOpen(f) ==
    /\ pc = "ready"
    /\ lpc = "idle"
    /\ LET loaded == JsonLoad(f) IN
       IF loaded.kind = "raise"
       THEN /\ pc' = "called"
            /\ call' = [op |-> "load_docs", file |-> f.id]
            /\ ret' = loaded
            /\ UNCHANGED <<docs, origin, lpc, lfile>>
       ELSE /\ docs' = loaded.value
            /\ origin' = Stamp(origin, {"docs"}, f.id)
            /\ lpc' = "contents"
            /\ lfile' = [id |-> f.id, contents |-> <<>>]
            /\ UNCHANGED <<pc, call, ret>>
    /\ UNCHANGED <<use_sklearn, vectorizer, doc_vectors>>
    /\ UNCHANGED again
    /\ UNCHANGED outside

\* load_docs ends: its caller gets the outcome.
LoadEnds(outcome) ==
    /\ pc' = "called"
    /\ call' = [op |-> "load_docs", file |-> lfile.id]
    /\ ret' = outcome
    /\ lpc' = "idle"
    /\ lfile' = NoFile

\* lines 35-36: the test and the list of contents
LoadContents ==
    /\ pc = "ready"
    /\ lpc = "contents"
    /\ IF ~(use_sklearn /\ docs # <<>>)
       THEN LoadEnds(Return(None))
       ELSE LET contents == Contents(docs) IN
            IF contents.kind = "raise"
            THEN LoadEnds(contents)
            ELSE /\ lpc' = "vectorizer"
                 /\ lfile' = [lfile EXCEPT !.contents = contents.value]
                 /\ UNCHANGED <<pc, call, ret>>
    /\ UNCHANGED <<use_sklearn, docs, vectorizer, doc_vectors, origin>>
    /\ UNCHANGED again
    /\ UNCHANGED outside

\* line 37: self.vectorizer = TfidfVectorizer(...)
LoadVectorizer ==
    /\ pc = "ready"
    /\ lpc = "vectorizer"
    /\ vectorizer' = Unfitted
    /\ origin' = Stamp(origin, {"vectorizer"}, lfile.id)
    /\ lpc' = "fit"
    /\ UNCHANGED <<pc, use_sklearn, docs, doc_vectors, call, ret, lfile>>
    /\ UNCHANGED again
    /\ UNCHANGED outside

\* line 38, the call: fit_transform fits self.vectorizer in place
LoadFit ==
    /\ pc = "ready"
    /\ lpc = "fit"
    /\ LET fit == FitTransform(lfile.contents) IN
       IF fit.kind = "raise"
       THEN /\ LoadEnds(fit)
            /\ UNCHANGED vectorizer
       ELSE /\ vectorizer' = fit.value.vectorizer
            /\ lpc' = "store"
            /\ UNCHANGED <<pc, call, ret, lfile>>
    /\ UNCHANGED <<use_sklearn, docs, doc_vectors, origin>>
    /\ UNCHANGED again
    /\ UNCHANGED outside

\* line 38, the assignment: self.doc_vectors = ...
LoadStore ==
    /\ pc = "ready"
    /\ lpc = "store"
    /\ doc_vectors' = FitTransform(lfile.contents).value.matrix
    /\ origin' = Stamp(origin, {"doc_vectors"}, lfile.id)
    /\ LoadEnds(Return(None))
    /\ UNCHANGED <<use_sklearn, docs, vectorizer>>
    /\ UNCHANGED again
    /\ UNCHANGED outside

NextConcurrent ==
    \/ \E f \in Files : Construct(f)
    \/ \E f \in Files : LoadOpen(f)
    \/ LoadContents
    \/ LoadVectorizer
    \/ LoadFit
    \/ LoadStore
    \/ \E q \in Queries, k \in TopKs, v \in BOOLEAN : Search(q, k, v)
    \/ \E q \in Queries, m \in MaxLengths, v \in BOOLEAN : GetRelevantContext(q, m, v)
    \/ Resume

SpecConcurrent == Init /\ [][NextConcurrent]_vars

(***************************************************************************)
(* SalesforceDeployer, src/agent/sf_deployer.py.  The project directory is *)
(* the one directory projects/<type_name>_project; `disk` says whether it  *)
(* exists and whether implement_code wrote its files ("none", "partial"    *)
(* after a write that failed midway, "all").  What the sf command, the     *)
(* file system and the user do is an input of each operation.              *)
(***************************************************************************)
ProjectDir == "projects/T_project"
NoDir == "None"       \* self.project_dir = None, line 19

\* What subprocess.run can do: return code 0, another return code, or raise
\* (the command is missing, or the timeout expires).
RunOutcomes == {"ok", "error", "exception"}

\* An operation of the deployer gives the fields and the disk it leaves,
\* the commands it ran and what it returned.
Effect(d, dk, ran, r) == [deployer |-> d, disk |-> dk, ran |-> ran, ret |-> r]

\* `not self.project_dir or not self.project_dir.exists()`, lines 130 and 176
NoProjectDir == deployer.project_dir = NoDir \/ ~disk.exists

\* Variant of create_project that makes the directory only when the command
\* has succeeded, and forgets the path otherwise.
create_projectAllOrNothing(how) ==
    IF how = "ok"
    THEN Effect([deployer EXCEPT !.project_dir = ProjectDir], [exists |-> TRUE, files |-> "none"],
                <<"project generate">>, Return(TRUE))
    ELSE Effect([deployer EXCEPT !.project_dir = NoDir], disk, <<"project generate">>, Return(FALSE))

\* create_project, lines 87-123.  `how` is what the rmtree and mkdir of
\* lines 96-99 and the command of lines 103-109 do: "oserror" when rmtree
\* or mkdir raises, else the outcome of the command.
create_project(how) ==
    LET d == [deployer EXCEPT !.project_dir = ProjectDir] IN
    IF how = "oserror"
    THEN Effect(d, disk, <<>>, Raise("OSError"))
    ELSE Effect(d, [exists |-> TRUE, files |-> "none"], <<"project generate">>, Return(how = "ok"))

\* implement_code, lines 125-169; `how` says whether the writes of lines
\* 139-156 go through ("ok") or one of them raises.
implement_code(how) ==
    IF NoProjectDir THEN Effect(deployer, disk, <<>>, Return(FALSE))
    ELSE IF how = "ok"
    THEN Effect(deployer, [disk EXCEPT !.files = "all"], <<>>, Return(TRUE))
    ELSE Effect(deployer, [disk EXCEPT !.files = "partial"], <<>>, Return(FALSE))

\* deploy_to_org, lines 171-210
deploy_to_org(how) ==
    IF NoProjectDir THEN Effect(deployer, disk, <<>>, Return(FALSE))
    ELSE Effect(deployer, disk, <<"project deploy start">>, Return(how = "ok"))

\* verify_deployment, lines 212-242
verify_deployment(how) ==
    Effect(deployer, disk, <<"project retrieve start">>, Return(how = "ok"))

\* cleanup_project, lines 244-253; `how` is what shutil.rmtree does.
cleanup_project(how) ==
    IF deployer.auto_cleanup /\ ~NoProjectDir /\ how = "ok"
    THEN Effect(deployer, [exists |-> FALSE, files |-> "none"], <<>>, Return(None))
    ELSE Effect(deployer, disk, <<>>, Return(None))

\* The operation `op` with effect e is carried out on the deployer.
Carry(op, e) ==
    /\ deployer' = e.deployer
    /\ disk' = e.disk
    /\ cli' = cli \o e.ran
    /\ made' = (made \/ (op = "create_project" /\ e.ret.kind = "return" /\ e.ret.value))
    /\ dcall' = [op |-> op, ret |-> e.ret, n |-> 1 - dcall.n]

\* SalesforceDeployer(), lines 14-19, the settings giving auto_cleanup
NewDeployer(auto) ==
    /\ deployer = None
    /\ deployer' = [project_dir |-> NoDir, auto_cleanup |-> auto]
    /\ dcall' = [op |-> "__init__", ret |-> Return(None), n |-> 1 - dcall.n]
    /\ UNCHANGED <<disk, cli, made>>

CanRun == deployer # None /\ Len(cli) < MaxCli

CreateProject(how) == CanRun /\ Carry("create_project", create_project(how))
ImplementCode(how) == CanRun /\ Carry("implement_code", implement_code(how))
DeployToOrg(how) == CanRun /\ Carry("deploy_to_org", deploy_to_org(how))
VerifyDeployment(how) == CanRun /\ Carry("verify_deployment", verify_deployment(how))
CleanupProject(how) == CanRun /\ Carry("cleanup_project", cleanup_project(how))

\* The deployer called by any caller, in any order.
NextDeployer ==
    /\ \/ \E auto \in BOOLEAN : NewDeployer(auto)
       \/ \E how \in RunOutcomes \cup {"oserror"} : CreateProject(how)
       \/ \E how \in {"ok", "exception"} : ImplementCode(how)
       \/ \E how \in RunOutcomes : DeployToOrg(how)
       \/ \E how \in RunOutcomes : VerifyDeployment(how)
       \/ \E how \in {"ok", "exception"} : CleanupProject(how)
    /\ UNCHANGED <<engineVars, mainVars, discovererVars, selectorVars>>

SpecDeployer == Init /\ [][NextDeployer]_vars

(***************************************************************************)
(* The delivery part of main(), src/agent/main.py lines 359-424.  mpc is   *)
(* the statement main is at; `steps` logs every delivery step carried out  *)
(* with whether it succeeded (returned True, or the user confirmed).       *)
(***************************************************************************)
Step(name, ok) == [step |-> name, ok |-> ok]

\* What the user does at a prompt: confirm, decline, or press Ctrl-C.
Answers == {"yes", "no", "interrupt"}

\* sys.exit(0) at the lines 362 and 400 and in the handler of line 427;
\* sys.exit(1) at the lines 369, 375, 386 and 424 and in the handler of
\* line 430
Exit(code) == IF code = 0 THEN "exit0" ELSE "exit1"

\* main() up to the first delivery prompt: the deployer is constructed
\* (line 307) and the working mode has given a spec, and in discovery
\* mode a target org (lines 321-330).
MainStart(auto, org) ==
    /\ mpc = "off"
    /\ NewDeployer(auto)
    /\ mpc' = "proceed"
    /\ target_org' = org
    /\ UNCHANGED steps

\* Confirm.ask("Proceed with deployment?"), lines 360-362
AskProceed(answer) ==
    /\ mpc = "proceed"
    /\ steps' = Append(steps, Step("proceed", answer = "yes"))
    /\ mpc' = IF answer = "yes" THEN "create_project" ELSE Exit(0)
    /\ UNCHANGED <<deployerVars, target_org>>

\* The statement main reaches after a call of line `at` returned r.
AfterCall(at, r) ==
    IF r.kind = "raise" THEN Exit(1)
    ELSE CASE at = "create_project" -> IF r.value THEN "implement_code" ELSE Exit(1)
           [] at = "implement_code" ->
                IF ~r.value THEN Exit(1) ELSE IF target_org THEN "confirm" ELSE "list_orgs"
           [] at = "deploy_to_org" -> IF r.value THEN "verify_deployment" ELSE Exit(1)
           [] at = "verify_deployment" -> IF deployer.auto_cleanup THEN "cleanup_project" ELSE "done"
           [] at = "cleanup_project" -> "done"

\* One call of main on the deployer: the lines 367, 373, 402, 404, 408.
MainCalls(at, e) ==
    /\ mpc = at
    /\ Carry(at, e)
    /\ steps' = Append(steps, Step(at, IF at = "cleanup_project" THEN TRUE
                                      ELSE e.ret.kind = "return" /\ e.ret.value))
    /\ mpc' = AfterCall(at, e.ret)
    /\ UNCHANGED target_org

\* Lines 378-394: list_orgs and the choice of the target org.
MainSelectOrg(found, answer) ==
    /\ mpc = "list_orgs"
    /\ cli' = Append(cli, "org list")
    /\ steps' = Append(steps, Step("select_org", found /\ answer = "yes"))
    /\ mpc' = IF ~found THEN Exit(1) ELSE IF answer = "interrupt" THEN Exit(0) ELSE "confirm"
    /\ target_org' = (found /\ answer = "yes")
    /\ UNCHANGED <<deployer, disk, made, dcall>>

\* Confirm.ask("Confirm deployment?"), lines 398-400
AskConfirm(answer) ==
    /\ mpc = "confirm"
    /\ steps' = Append(steps, Step("confirm", answer = "yes"))
    /\ mpc' = IF answer = "yes" THEN "deploy_to_org" ELSE Exit(0)
    /\ UNCHANGED <<deployerVars, target_org>>

NextMain ==
    /\ \/ \E auto, org \in BOOLEAN : MainStart(auto, org)
       \/ \E answer \in Answers : AskProceed(answer)
       \/ \E how \in RunOutcomes \cup {"oserror"} : MainCalls("create_project", create_project(how))
       \/ \E how \in {"ok", "exception"} : MainCalls("implement_code", implement_code(how))
       \/ \E found \in BOOLEAN : \E answer \in {"yes", "interrupt"} : MainSelectOrg(found, answer)
       \/ \E answer \in Answers : AskConfirm(answer)
       \/ \E how \in RunOutcomes : MainCalls("deploy_to_org", deploy_to_org(how))
       \/ \E how \in RunOutcomes : MainCalls("verify_deployment", verify_deployment(how))
       \/ \E how \in {"ok", "exception"} : MainCalls("cleanup_project", cleanup_project(how))
    /\ UNCHANGED <<engineVars, discovererVars, selectorVars>>

SpecMain == Init /\ [][NextMain]_vars

\* The calls on the discoverer, by any caller in any order.
DiscoverObject(object_name, org_alias, use_cache, how) ==
    LET e == discover_object(object_name, org_alias, use_cache, how) IN
    /\ Len(e.fetchlog) <= MaxFetches
    /\ cache' = e.cache
    /\ fetchlog' = e.fetchlog
    /\ ocall' = [op |-> "discover_object", object_name |-> object_name, org_alias |-> org_alias,
                 use_cache |-> use_cache, ret |-> e.ret, n |-> 1 - ocall.n]

ClearCache(org_alias, object_name) ==
    /\ cache' = clear_cache(org_alias, object_name)
    /\ ocall' = [op |-> "clear_cache", object_name |-> object_name, org_alias |-> org_alias,
                 use_cache |-> FALSE, ret |-> None, n |-> 1 - ocall.n]
    /\ UNCHANGED fetchlog

NextDiscoverer ==
    /\ \/ \E n \in ObjectNames, o \in OrgAliases, use_cache \in BOOLEAN, how \in {"ok", "failed"} :
            DiscoverObject(n, o, use_cache, how)
       \/ \E o \in OrgAliases \cup {<<>>}, n \in ObjectNames \cup {<<>>} : ClearCache(o, n)
    /\ UNCHANGED <<engineVars, deployerVars, mainVars, selectorVars>>

SpecDiscoverer == Init /\ [][NextDiscoverer]_vars

(***************************************************************************)
(* select_object_interactive, src/agent/object_discoverer.py lines         *)
(* 516-591, with display_objects_table and search_objects.  An object of   *)
(* the listing is its name, label and custom flag.                         *)
(***************************************************************************)
DigitChars == <<"0", "1", "2", "3", "4", "5", "6", "7", "8", "9">>

\* The characters of the names, in the order of their code points.
Ascii == DigitChars \o UpperLetters \o <<"_">> \o LowerLetters
Ord(c) == CHOOSE i \in DOMAIN Ascii : Ascii[i] = c

\* a < b for Python strings
RECURSIVE StrLessFrom(_, _, _)
StrLessFrom(a, b, i) ==
    IF i > Len(b) THEN FALSE
    ELSE IF i > Len(a) THEN TRUE
    ELSE IF a[i] # b[i] THEN Ord(a[i]) < Ord(b[i])
    ELSE StrLessFrom(a, b, i + 1)
StrLess(a, b) == StrLessFrom(a, b, 1)

\* str(n) for n >= 0, and int(s) for a string of digits
RECURSIVE Str(_)
Str(n) == IF n < 10 THEN <<DigitChars[n + 1]>> ELSE Str(n \div 10) \o <<DigitChars[(n % 10) + 1]>>
DigitValue(c) == (CHOOSE i \in DOMAIN DigitChars : DigitChars[i] = c) - 1
RECURSIVE IntFrom(_, _, _)
IntFrom(s, i, acc) == IF i > Len(s) THEN acc ELSE IntFrom(s, i + 1, acc * 10 + DigitValue(s[i]))
ParseInt(s) == IntFrom(s, 1, 0)
IsDigit(s) == s # <<>> /\ \A i \in DOMAIN s : s[i] \in Digits

\* s[lo-1:] and s.strip()
SliceFrom(s, lo) == IF lo > Len(s) THEN <<>> ELSE [i \in 1..(Len(s) + 1 - lo) |-> s[i + lo - 1]]
Strip(s) ==
    LET kept == {i \in DOMAIN s : ~IsSpace(s[i])} IN
    IF kept = {} THEN <<>>
    ELSE LET lo == CHOOSE i \in kept : \A j \in kept : i <= j
             hi == CHOOSE i \in kept : \A j \in kept : i >= j
         IN  [i \in 1..(hi + 1 - lo) |-> s[i + lo - 1]]

\* w in text, and text.startswith(w)
IsSubstring(w, text) ==
    \E i \in 0..(Len(text) - Len(w)) : \A j \in DOMAIN w : text[i + j] = w[j]
StartsWith(text, w) == Len(w) <= Len(text) /\ \A j \in DOMAIN w : text[j] = w[j]

\* The i-th object of the org: Ac01 .. Ac25, then Op26 ..; every fourth
\* one is custom and ends with __c.
TwoDigits(i) == <<DigitChars[(i \div 10) + 1], DigitChars[(i % 10) + 1]>>
OrgObject(i) ==
    [name |-> (IF i <= 25 THEN <<"A", "c">> ELSE <<"O", "p">>) \o TwoDigits(i)
              \o (IF i % 4 = 0 THEN <<"_", "_", "c">> ELSE <<>>),
     label |-> <<"L">> \o TwoDigits(i),
     custom |-> (i % 4 = 0)]

\* What list_objects returns, lines 394-446: the objects in the order the
\* command lists them, or [] when it fails.
Listings ==
    {<<>>, <<OrgObject(2), OrgObject(1), OrgObject(4)>>,
     [i \in 1..MaxObjects |-> OrgObject(MaxObjects + 1 - i)]}

\* objects.sort(key=lambda x: x.get('name', '')), line 535: stable, ascending
RECURSIVE InsertByName(_, _)
InsertByName(sorted, obj) ==
    IF sorted = <<>> THEN <<obj>>
    ELSE IF StrLess(obj.name, sorted[Len(sorted)].name)
    THEN Append(InsertByName(SubSeq(sorted, 1, Len(sorted) - 1), obj), sorted[Len(sorted)])
    ELSE Append(sorted, obj)
RECURSIVE SortByNameFrom(_, _, _)
SortByNameFrom(listing, i, sorted) ==
    IF i > Len(listing) THEN sorted
    ELSE SortByNameFrom(listing, i + 1, InsertByName(sorted, listing[i]))
SortByName(listing) == SortByNameFrom(listing, 1, <<>>)

\* (total + per_page - 1) // per_page, lines 461 and 565
TotalPages(objs) == (Len(objs) + PerPage - 1) \div PerPage

\* display_objects_table, lines 448-490: the rows shown, and the tuple returned
display_objects_table(objs, page) ==
    LET total == Len(objs)
        start_idx == (page - 1) * PerPage
        end_idx == Min(start_idx + PerPage, total)
    IN  [rows |-> [i \in 1..Max(end_idx - start_idx, 0) |->
                     [number |-> Str(start_idx + i), name |-> objs[start_idx + i].name]],
         start_idx |-> start_idx, end_idx |-> end_idx, total_pages |-> TotalPages(objs)]

\* search_objects, lines 492-514
search_objects(objs, search_term) ==
    IF search_term = <<>> THEN objs
    ELSE LET search_lower == Lower(search_term)
             Matches(obj) == \/ IsSubstring(search_lower, Lower(obj.name))
                             \/ IsSubstring(search_lower, Lower(obj.label))
         IN  SelectSeq(objs, Matches)

IsCustom(obj) == obj.custom

\* Variant of the 'n' command that turns the page without looking at the
\* number of pages.
NextPageUnguarded(page, objs) == page + 1

\* The 'n' command, lines 565-567, and the 'p' command, lines 569-570
NextPage(page, objs) == IF page < TotalPages(objs) THEN page + 1 ELSE page
PreviousPage(page) == IF page > 1 THEN page - 1 ELSE page

\* One turn of the loop on the answer ch, lines 560-591: the locals it
\* leaves, and whether and what it returns.
Turn(objs, page, returned, value) ==
    [current_objects |-> objs, current_page |-> page, returned |-> returned, value |-> value]

Answer(ch) ==
    LET lower == Lower(ch) IN
    IF lower = <<"q">> THEN Turn(current_objects, current_page, TRUE, None)
    ELSE IF lower = <<"n">> THEN Turn(current_objects, NextPage(current_page, current_objects), FALSE, None)
    ELSE IF lower = <<"p">> THEN Turn(current_objects, PreviousPage(current_page), FALSE, None)
    ELSE IF lower = <<"c">> THEN Turn(SelectSeq(objects, IsCustom), 1, FALSE, None)
    ELSE IF lower = <<"a", "l", "l">> THEN Turn(objects, 1, FALSE, None)
    ELSE IF StartsWith(lower, <<"s", ":">>)
    THEN Turn(search_objects(objects, Strip(SliceFrom(ch, 3))), 1, FALSE, None)
    ELSE IF IsDigit(ch) /\ 0 <= ParseInt(ch) - 1 /\ ParseInt(ch) - 1 < Len(current_objects)
    THEN Turn(current_objects, current_page, TRUE, current_objects[ParseInt(ch)].name)
    ELSE Turn(current_objects, current_page, FALSE, None)

\* What the user may type at the prompt.
Choices ==
    {<<"q">>, <<"n">>, <<"N">>, <<"p">>, <<"c">>, <<"a", "l", "l">>, <<"A", "L", "L">>, <<"x">>, <<>>,
     <<"s", ":">>, <<"s", ":", "a", "c">>, <<"S", ":", " ", "O", "P", " ">>, <<"s", ":", "z", "z">>,
     <<"s", ":", "l", "4">>, <<"s", ":", "_", "_", "C">>}
    \cup {Str(k) : k \in {0, 1, 2, PerPage, PerPage + 1, 25, 26, MaxObjects, MaxObjects + 1}}
    \cup {<<"0", "0", "3">>}

\* select_object_interactive up to its first prompt, lines 527-539
SelectStart(listing) ==
    /\ spc = "off"
    /\ choice' = <<>>
    /\ IF listing = <<>>
       THEN /\ spc' = "returned"
            /\ selected' = None
            /\ UNCHANGED <<objects, current_objects, current_page>>
       ELSE /\ spc' = "prompt"
            /\ objects' = SortByName(listing)
            /\ current_objects' = SortByName(listing)
            /\ current_page' = 1
            /\ UNCHANGED selected

\* The user answers the prompt of line 560.
Choose(ch) ==
    /\ spc = "prompt"
    /\ LET t == Answer(ch) IN
        /\ current_objects' = t.current_objects
        /\ current_page' = t.current_page
        /\ spc' = IF t.returned THEN "returned" ELSE "prompt"
        /\ selected' = t.value
    /\ choice' = ch
    /\ UNCHANGED objects

\* The caller has the selection; the locals are gone.
SelectEnds ==
    /\ spc = "returned"
    /\ spc' = "off"
    /\ objects' = <<>>
    /\ current_objects' = <<>>
    /\ current_page' = 1
    /\ choice' = <<>>
    /\ selected' = None

NextSelector ==
    /\ \/ \E listing \in Listings : SelectStart(listing)
       \/ \E ch \in Choices : Choose(ch)
       \/ SelectEnds
    /\ UNCHANGED <<engineVars, deployerVars, mainVars, discovererVars>>

SpecSelector == Init /\ [][NextSelector]_vars

(***************************************************************************)
(* Properties.                                                             *)
(***************************************************************************)
Searched == pc = "called" /\ call.op = "search"
Assembled == pc = "called" /\ call.op = "get_relevant_context"
Returned == ret.kind = "return"
Constructed == pc \in {"ready", "called"}

\* The ordinals of the documents a search returned.
ReturnedOrdinals == {ret.value[i].idx : i \in DOMAIN ret.value}

\* The keyword ranker's score of document d for the query of the call.
CallScore(d) == SimpleScore(WordSet(call.query), docs[d])

\* The number of candidates the ranker of the call ranked.
Candidates ==
    IF docs = <<>> THEN 0
    ELSE IF use_sklearn THEN Len(doc_vectors)
    ELSE Len(docs)

\* C1, as claimed: whatever the integer top_k, a search that returns gives at
\* most top_k results; no sequence is shorter than the empty one, so for a
\* negative top_k that is no result at all.
C1_AtMostTopKForAnyInteger ==
    (Searched /\ Returned) => Len(ret.value) <= Max(call.top_k, 0)

\* C1, the part that holds: for top_k >= 0 a search returns at most top_k
\* results; for top_k < 0 the slice drops the last -top_k of the n candidates
\* and up to max(0, n + top_k) results are returned.
C1_AtMostTopKWhenNonNegative ==
    (Searched /\ Returned) =>
        /\ call.top_k >= 0 => Len(ret.value) <= call.top_k
        /\ call.top_k < 0 => Len(ret.value) <= Max(0, Candidates + call.top_k)

\* C2: every result a search returns has a score strictly greater than 0.1,
\* on both paths; on the keyword path the score is the one of the document
\* returned, so a document scoring 0.1 or less is never returned.
C2_ScoresAboveThreshold ==
    (Searched /\ Returned) =>
        \A i \in DOMAIN ret.value :
            /\ ret.value[i].score.num * ThresholdDen > ret.value[i].score.den
            /\ ~use_sklearn => /\ ret.value[i].score = CallScore(ret.value[i].idx)
                               /\ ret.value[i].doc = docs[ret.value[i].idx]

\* C2, witness: a keyword search not cut by top_k returned a result and left
\* out a document whose score is exactly 0.1.
C2_Witness ==
    /\ Searched /\ Returned
    /\ ~use_sklearn
    /\ call.top_k >= Len(docs)
    /\ ret.value # <<>>
    /\ \E d \in DOMAIN docs : CallScore(d).num * ThresholdDen = CallScore(d).den
                               /\ d \notin ReturnedOrdinals

\* The results are in descending order of score, equal scores in ascending
\* order of ordinal.
DescendingTiesAscending ==
    \A i, j \in DOMAIN ret.value :
        i < j => \/ FracGT(ret.value[i].score, ret.value[j].score)
                 \/ /\ FracEQ(ret.value[i].score, ret.value[j].score)
                    /\ ret.value[i].idx < ret.value[j].idx

\* C3, as claimed: on the vector path the results are in descending order of
\* similarity and documents of equal similarity come lower ordinal first.
C3_VectorTiesLowerOrdinalFirst ==
    (Searched /\ Returned /\ use_sklearn) => DescendingTiesAscending

\* C4: on the keyword path the results are in descending order of score,
\* documents of equal score come lower ordinal first, and a document left out
\* with the score of a returned one has a higher ordinal than it.
C4_KeywordOrder ==
    (Searched /\ Returned /\ ~use_sklearn) =>
        /\ DescendingTiesAscending
        /\ \A i \in DOMAIN ret.value :
             \A d \in (DOMAIN docs) \ ReturnedOrdinals :
                FracEQ(CallScore(d), ret.value[i].score) => d > ret.value[i].idx

\* C4, witness: top_k cut a group of documents of equal score above the
\* threshold: one of them is returned, another is not.
C4_Witness ==
    /\ Searched /\ Returned
    /\ ~use_sklearn
    /\ \E i \in DOMAIN ret.value :
         \E d \in (DOMAIN docs) \ ReturnedOrdinals :
            /\ FracEQ(CallScore(d), ret.value[i].score)
            /\ AboveThreshold(CallScore(d))

\* C5, as claimed: whatever the integer max_length, the string
\* get_relevant_context returns is at most max_length long; no string is
\* shorter than the empty one, so for a negative max_length that is "".
C5_AtMostMaxLengthForAnyInteger ==
    (Assembled /\ Returned) => Len(ret.value) <= Max(call.max_length, 0)

\* C5, the part that holds: for max_length >= 0 the string returned is at
\* most max_length long.
C5_AtMostMaxLengthWhenNonNegative ==
    (Assembled /\ Returned /\ call.max_length >= 0) => Len(ret.value) <= call.max_length

\* C6: with an empty corpus search returns the empty sequence and
\* get_relevant_context the empty string, whatever the arguments and the path.
C6_EmptyCorpusEmptyAnswers ==
    (pc = "called" /\ docs = <<>>) =>
        /\ call.op = "search" => ret = Return(<<>>)
        /\ call.op = "get_relevant_context" => ret = Return(<<>>)

\* C6, witness: a search for at least one result on the vector path of an
\* engine whose corpus is empty.
C6_Witness ==
    /\ Searched
    /\ docs = <<>>
    /\ use_sklearn
    /\ call.top_k >= 1

\* C7, as claimed: the constructor does not raise, and leaves an empty corpus,
\* both when the corpus file is missing and when it exists but cannot be parsed.
C7_ConstructorNeverRaises ==
    (call.op = "__init__" /\ call.file \in {"missing", "garbled"}) =>
        /\ pc # "failed"
        /\ ret.kind = "return"
        /\ docs = <<>>

\* C8, as claimed: at every point where a search can run, load_docs under way
\* or not, the corpus and the index of the vector path come from the same load.
C8_NoHalfRebuiltEngine ==
    (Constructed /\ use_sklearn /\ docs # <<>>) =>
        /\ origin.vectorizer = origin.docs
        /\ origin.doc_vectors = origin.docs

\* C9, as claimed: after construction and any load_docs calls, search and
\* get_relevant_context return a value and never raise.
C9_QueriesNeverRaise ==
    (pc = "called" /\ call.op \in {"search", "get_relevant_context"}) => ret.kind = "return"

\* C10, as claimed: between operations, when the vector path is selected and
\* the corpus is not empty, the index is the one built from the current
\* corpus: one row per document, in corpus order.
C10_IndexBuiltFromCorpus ==
    (Constructed /\ use_sklearn /\ docs # <<>>) =>
        /\ vectorizer # None
        /\ doc_vectors # None
        /\ Contents(docs).kind = "return"
        /\ vectorizer = Fitted(Contents(docs).value)
        /\ Len(doc_vectors) = Len(docs)
        /\ doc_vectors = Rows(Contents(docs).value)

\* C11: rebuilding is all-or-nothing: a load_docs that raises, at whatever
\* step, leaves docs, vectorizer and doc_vectors with the values they had
\* before the call.
C11_FailedLoadChangesNothing ==
    [][(pc = "ready" /\ pc' = "called" /\ call'.op = "load_docs" /\ ret'.kind = "raise")
         => UNCHANGED <<docs, vectorizer, doc_vectors>>]_vars

\* C12: after load_docs has read an empty corpus the call has returned and
\* the engine holds no vector index, whatever it held before.
C12_EmptyCorpusHoldsNoIndex ==
    (pc = "called" /\ call.op = "load_docs" /\ call.file = "empty")
        => (Returned /\ docs = <<>> /\ vectorizer = None /\ doc_vectors = None)

\* Lemma of C12: loading an empty corpus never raises and empties docs.
C12_EmptyCorpusLoads ==
    (pc = "called" /\ call.op = "load_docs" /\ call.file = "empty") => (Returned /\ docs = <<>>)

\* C13: the ranking strategy is chosen at construction and stays: no step
\* changes use_sklearn, and a search on a non-empty corpus (that of
\* get_relevant_context included) is answered by the vector ranker exactly
\* when use_sklearn is true and otherwise wholly by the keyword ranker.
C13_StrategyFixedAtConstruction ==
    [][/\ use_sklearn' = use_sklearn
       /\ (pc = "ready" /\ pc' = "called" /\ docs # <<>>
              /\ call'.op \in {"search", "get_relevant_context"})
            => /\ (call'.by = "_sklearn_search") <=> use_sklearn
               /\ (call'.by = "_simple_search") <=> ~use_sklearn
               /\ call'.op = "search" =>
                     IF use_sklearn
                     THEN ret'.kind = "return" => call'.similarities # <<>>
                     ELSE /\ call'.similarities = <<>>
                          /\ ret' = _simple_search(docs, call'.query, call'.top_k)]_vars

\* A search answered by the vector ranker with results, on an engine that
\* has been through a load.
C13_Witness ==
    /\ Searched /\ Returned
    /\ use_sklearn
    /\ docs # <<>>
    /\ call.by = "_sklearn_search"
    /\ ret.value # <<>>

\* The words of a text, read off the text itself: its maximal runs of
\* characters that are not whitespace, lowercased.
WordStarts(s) == {i \in DOMAIN s : ~IsSpace(s[i]) /\ (i = 1 \/ IsSpace(s[i - 1]))}
WordEnd(s, i) ==
    CHOOSE j \in i..Len(s) :
        /\ \A k \in i..j : ~IsSpace(s[k])
        /\ j = Len(s) \/ IsSpace(s[j + 1])
LoweredWords(s) == {Lower(SubSeq(s, i, WordEnd(s, i))) : i \in WordStarts(s)}

\* |Q n C| / max(|Q|, 1) + 2 * |Q n T| / max(|Q|, 1) for document d of the corpus
FallbackScore(query, d) ==
    LET Q == LoweredWords(query)
        C == LoweredWords(docs[d].content)
        T == LoweredWords(docs[d].title)
    IN  Frac(Cardinality(Q \cap C) + 2 * Cardinality(Q \cap T), Max(Cardinality(Q), 1))

\* C14: the keyword ranker scores a document |Q n C| / max(|Q|, 1) +
\* 2 * |Q n T| / max(|Q|, 1) over the sets of lowercased words of query,
\* content and title: every result carries that score, a search that asks
\* for at least as many results as there are documents returns exactly the
\* documents whose score is above 0.1, and a query without words returns
\* nothing (and does not fail on the division).
C14_FallbackScore ==
    (Searched /\ call.by = "_simple_search" /\ \A d \in DOMAIN docs : "content" \in DOMAIN docs[d])
        => /\ Returned
           /\ \A i \in DOMAIN ret.value :
                 FracEQ(ret.value[i].score, FallbackScore(call.query, ret.value[i].idx))
           /\ call.top_k >= Len(docs) =>
                 ReturnedOrdinals = {d \in DOMAIN docs : AboveThreshold(FallbackScore(call.query, d))}
           /\ LoweredWords(call.query) = {} => ret.value = <<>>

\* A two-word query with an uppercase word, answered by the keyword ranker
\* with a document that matches in its content and in its title.
C14_Witness ==
    /\ Searched /\ Returned
    /\ call.by = "_simple_search"
    /\ Cardinality(LoweredWords(call.query)) = 2
    /\ call.query # Lower(call.query)
    /\ \E i \in DOMAIN ret.value :
          LET d == ret.value[i].doc IN
          /\ LoweredWords(call.query) \cap LoweredWords(d.content) # {}
          /\ LoweredWords(call.query) \cap LoweredWords(d.title) # {}

\* The score the ranker of the last search gave to ordinal d.
RankedScore(d) ==
    IF call.by = "_sklearn_search" THEN call.similarities[d] ELSE FallbackScore(call.query, d)

\* The ordinals the ranker of the last search ranked, and those above 0.1.
Ranked == IF call.by = "_sklearn_search" THEN DOMAIN call.similarities ELSE DOMAIN docs
Qualifying == {d \in Ranked : AboveThreshold(RankedScore(d))}

\* C15: for top_k >= 0 search returns the first min(top_k, n) entries of the
\* documents above 0.1 ranked by descending score, n being their number:
\* the results are that many distinct qualifying documents with their
\* scores, in descending order, and no omitted qualifying document scores
\* higher than a returned one.
C15_TopKOfQualifying ==
    (Searched /\ Returned /\ call.by # "empty" /\ call.top_k >= 0)
        => /\ Len(ret.value) = Min(call.top_k, Cardinality(Qualifying))
           /\ ReturnedOrdinals \subseteq Qualifying
           /\ Cardinality(ReturnedOrdinals) = Len(ret.value)
           /\ \A i \in DOMAIN ret.value : ret.value[i].score = RankedScore(ret.value[i].idx)
           /\ \A i, j \in DOMAIN ret.value : i < j => ~FracGT(ret.value[j].score, ret.value[i].score)
           /\ \A d \in Qualifying \ ReturnedOrdinals, i \in DOMAIN ret.value :
                 ~FracGT(RankedScore(d), ret.value[i].score)

\* A search of the vector ranker that leaves out a qualifying document
\* because top_k documents are returned ahead of it.
C15_Witness ==
    /\ Searched /\ Returned
    /\ call.by = "_sklearn_search"
    /\ call.top_k >= 1
    /\ Len(ret.value) = call.top_k
    /\ Qualifying \ ReturnedOrdinals # {}

\* The corpus of the retrieval scenarios.
ScenarioCorpus == <<DocBadges, DocCurrency>>

\* C16: on the corpus [Badges, Currency] search("status badge", top_k=1)
\* returns exactly one result, the Badges document, with a score above 0.1,
\* whichever ranker answers.
C16_StatusBadgeScenario ==
    (Searched /\ docs = ScenarioCorpus /\ call.query = sStatusBadge /\ call.top_k = 1)
        => /\ Returned
           /\ Len(ret.value) = 1
           /\ ret.value[1].doc = DocBadges
           /\ AboveThreshold(ret.value[1].score)

\* The scenario answered by the vector ranker.
C16_Witness ==
    /\ Searched /\ Returned
    /\ docs = ScenarioCorpus /\ call.query = sStatusBadge /\ call.top_k = 1
    /\ call.by = "_sklearn_search"
    /\ Len(ret.value) = 1
    /\ ret.value[1].doc.title = sBadges

\* Word w occurs in the text, whatever the case of the text.
Occurs(w, text) ==
    \E i \in 1..(Len(text) - Len(w) + 1) : SubSeq(Lower(text), i, i + Len(w) - 1) = w

\* No word of the query occurs in a title or a content of the corpus.
NoQueryWordOccurs ==
    \A w \in LoweredWords(call.query), d \in DOMAIN docs :
        /\ ~Occurs(w, docs[d].title)
        /\ "content" \in DOMAIN docs[d] => ~Occurs(w, docs[d].content)

\* C17: a query none of whose words occurs in any title or content of the
\* corpus gets an empty sequence from search, for every top_k.
C17_NoMatchNoResults ==
    (Searched /\ Returned /\ NoQueryWordOccurs) => ret.value = <<>>

\* Lemma of C17: the same, for an engine whose index was built from its corpus
\* or that ranks by keywords.
C17_NoMatchNoResultsFreshIndex ==
    (Searched /\ Returned /\ NoQueryWordOccurs
       /\ (use_sklearn => origin.vectorizer = origin.docs /\ origin.doc_vectors = origin.docs))
        => ret.value = <<>>

\* The results the search of line 108 gave to the last get_relevant_context.
Found == call.results.value
FoundHaveContent == \A i \in DOMAIN Found : {"title", "content"} \subseteq DOMAIN Found[i].doc

IsPrefix(s, t) == Len(s) <= Len(t) /\ \A i \in DOMAIN s : s[i] = t[i]

\* The first m blocks of the results, as lines 114-115 make them, with no cutoff.
RECURSIVE CodeBlocks(_, _)
CodeBlocks(results, m) ==
    IF m = 0 THEN <<>>
    ELSE CodeBlocks(results, m - 1) \o Heading(results[m].doc.title) \o Excerpt(results[m].doc.content)

\* C18: the string get_relevant_context returns is a prefix of the string
\* the same results give when every block is appended and nothing is cut,
\* for every query and every integer max_length.
C18_PrefixOfUnboundedAssembly ==
    (Assembled /\ Returned /\ FoundHaveContent)
        => IsPrefix(ret.value, CodeBlocks(Found, Len(Found)))

\* A context cut inside its first block, of a document longer than the
\* excerpt, with a second result left out.
C18_Witness ==
    /\ Assembled /\ Returned
    /\ Len(Found) >= 2
    /\ Len(Found[1].doc.content) > ExcerptLength
    /\ call.max_length >= 1
    /\ Len(ret.value) = call.max_length
    /\ Len(ret.value) < Len(CodeBlocks(Found, 1))

\* One block as the specification describes it: a heading with the title,
\* the first ExcerptLength characters of the content, an ellipsis marker.
FirstChars(text, n) == [i \in 1..Min(Len(text), n) |-> text[i]]
DescribedBlock(doc) ==
    <<"\n", "\n", "#", "#", " ">> \o doc.title \o <<"\n">>
        \o FirstChars(doc.content, ExcerptLength) \o <<".", ".", ".", "\n">>

RECURSIVE DescribedBlocks(_, _)
DescribedBlocks(results, m) ==
    IF m = 0 THEN <<>> ELSE DescribedBlocks(results, m - 1) \o DescribedBlock(results[m].doc)

\* C19: get_relevant_context builds its text from the results of
\* search(query, top_k=5), at most 5, in their ranked order, one block for
\* each (heading with the title, first 500 characters of the content,
\* ellipsis marker also after a shorter content): the text is a prefix of
\* these blocks in that order, and all of them when max_length is beyond
\* their length, so that no other document contributes.
C19_BlocksOfTopFive ==
    (Assembled /\ Returned /\ FoundHaveContent)
        => /\ call.results \in search(call.query, ContextTopK, call.verbose)
           /\ Len(Found) <= ContextTopK
           /\ \A i, j \in DOMAIN Found : i < j => ~FracGT(Found[j].score, Found[i].score)
           /\ IsPrefix(ret.value, DescribedBlocks(Found, Len(Found)))
           /\ call.max_length >= Len(DescribedBlocks(Found, Len(Found)))
                 => ret.value = DescribedBlocks(Found, Len(Found))

\* Six documents of the corpus match, five blocks of contents shorter than
\* the excerpt make the whole text and the sixth document is not in it.
C19_Witness ==
    /\ Assembled /\ Returned
    /\ Len(docs) > ContextTopK
    /\ \A d \in DOMAIN docs : AboveThreshold(FallbackScore(call.query, d))
    /\ Len(Found) = ContextTopK
    /\ \A i \in DOMAIN Found : Len(Found[i].doc.content) < ExcerptLength
    /\ ret.value = DescribedBlocks(Found, ContextTopK)
    /\ \E d \in DOMAIN docs : \A i \in DOMAIN Found : Found[i].doc # docs[d]

\* The number of blocks the loop appends for a limit: the first count, at
\* least one, at which the accumulated length reaches the limit, and all
\* the results when it never does.
IsAppendedCount(results, max_length, m) ==
    /\ m \in 1..Len(results)
    /\ \A k \in 1..(m - 1) : Len(CodeBlocks(results, k)) < max_length
    /\ m < Len(results) => Len(CodeBlocks(results, m)) >= max_length

\* C20: for max_length >= 0 whole blocks are appended until the accumulated
\* length first reaches or exceeds max_length, the crossing block in full
\* and none after it, and the returned string is the accumulated text cut
\* to length min(max_length, length of the accumulated text).
C20_TwoPhaseCutoff ==
    (Assembled /\ Returned /\ FoundHaveContent /\ call.max_length >= 0)
        => IF Found = <<>>
           THEN ret.value = <<>> /\ call.context = None
           ELSE /\ call.context.kind = "return"
                /\ \E m \in 1..Len(Found) :
                      /\ IsAppendedCount(Found, call.max_length, m)
                      /\ call.context.value = CodeBlocks(Found, m)
                /\ Len(ret.value) = Min(call.max_length, Len(call.context.value))
                /\ IsPrefix(ret.value, call.context.value)

\* The second block crosses the limit: it is appended in full, a third
\* result is left out and the text is cut inside the second block.
C20_Witness ==
    /\ Assembled /\ Returned
    /\ call.max_length >= 0
    /\ Len(Found) >= 3
    /\ call.context.value = CodeBlocks(Found, 2)
    /\ Len(CodeBlocks(Found, 1)) < call.max_length
    /\ Len(call.context.value) > call.max_length
    /\ Len(ret.value) = call.max_length

\* The fields of the engine.
engine == <<use_sklearn, docs, vectorizer, doc_vectors>>

QueryStep ==
    pc = "ready" /\ pc' = "called" /\ call'.op \in {"search", "get_relevant_context"}

\* C21: the verbose flag never changes results: in every state a query has
\* with verbose=True the outcomes it has with verbose=False, for search and
\* for get_relevant_context, the outcome of every call made is one of them,
\* and the call leaves the engine as it was whatever the flag.
C21_VerboseChangesNothing ==
    [][QueryStep =>
         /\ search(call'.query, ContextTopK, TRUE) = search(call'.query, ContextTopK, FALSE)
         /\ call'.op = "search" =>
               /\ search(call'.query, call'.top_k, TRUE) = search(call'.query, call'.top_k, FALSE)
               /\ ret' \in search(call'.query, call'.top_k, ~call'.verbose)
         /\ call'.op = "get_relevant_context" =>
               /\ get_relevant_context(call'.query, call'.max_length, TRUE)
                     = get_relevant_context(call'.query, call'.max_length, FALSE)
               /\ ret' \in get_relevant_context(call'.query, call'.max_length, ~call'.verbose)
         /\ engine' = engine]_vars

\* A verbose search of the vector ranker that printed its count and
\* returned results.
C21_Witness ==
    /\ Searched /\ Returned
    /\ call.verbose
    /\ call.by = "_sklearn_search"
    /\ call.printed # <<>>
    /\ ret.value # <<>>

RecordsOf(id) == (CHOOSE f \in Files : f.id = id).records

\* C23: after a load_docs that returned, docs is exactly the sequence of
\* records of the file, in file order and with duplicates kept; nothing of
\* the corpus held before remains.
C23_CorpusIsTheFile ==
    (pc = "called" /\ call.op = "load_docs" /\ Returned) => docs = RecordsOf(call.file)

\* A reload that returned on a file holding the same record twice.
C23_Witness ==
    /\ pc = "called" /\ call.op = "load_docs" /\ Returned
    /\ Len(docs) = 2
    /\ docs[1] = docs[2]
    /\ docs = RecordsOf(call.file)

\* C24: queries are read-only: a search, a repeated search and a
\* get_relevant_context leave docs, vectorizer, doc_vectors and use_sklearn
\* as they were, and a step that changes one of them is a load_docs, called
\* directly or by the constructor.
C24_QueriesReadOnly ==
    [][/\ (QueryStep \/ pc' = "repeated") => engine' = engine
       /\ engine' # engine => call'.op \in {"load_docs", "__init__"}]_vars

\* A search of the vector ranker that returned, for a query with a term
\* outside the fitted vocabulary.
C24_Witness ==
    /\ Searched /\ Returned
    /\ call.by = "_sklearn_search"
    /\ vectorizer.fitted
    /\ \E t \in Range(Analyze(call.query)) : t \notin vectorizer.vocabulary
    /\ \E t \in Range(Analyze(call.query)) : t \in vectorizer.vocabulary

\* C25: every result search returns is a document of the current corpus
\* at a position of its own: no position comes twice, and the results are
\* never more than the documents.
C25_ResultsAreCorpusDocuments ==
    (Searched /\ Returned)
        => /\ \A i \in DOMAIN ret.value :
                 /\ ret.value[i].idx \in DOMAIN docs
                 /\ ret.value[i].doc = docs[ret.value[i].idx]
           /\ Cardinality(ReturnedOrdinals) = Len(ret.value)
           /\ Len(ret.value) <= Len(docs)

\* As many results as the corpus has documents, from the vector ranker.
C25_Witness ==
    /\ Searched /\ Returned
    /\ call.by = "_sklearn_search"
    /\ Len(docs) >= 2
    /\ Len(ret.value) = Len(docs)

\* A step in which the deployer is called.
DeployerStep(op) == dcall'.n # dcall.n /\ dcall'.op = op

\* C27: implement_code and deploy_to_org return False, write no file and
\* run no command, unless a create_project of the same deployer has
\* returned True before.
C27_NothingWithoutCreatedProject ==
    [][((DeployerStep("implement_code") \/ DeployerStep("deploy_to_org")) /\ ~made)
         => (dcall'.ret = Return(FALSE) /\ disk' = disk /\ cli' = cli)]_vars

\* What holds of C27: before any create_project has been called on the
\* deployer, implement_code and deploy_to_org return False and do nothing.
C27_NothingBeforeAnyCreate ==
    [][((DeployerStep("implement_code") \/ DeployerStep("deploy_to_org")) /\ deployer.project_dir = NoDir)
         => (dcall'.ret = Return(FALSE) /\ disk' = disk /\ cli' = cli)]_vars

\* The steps logged before the i-th one.
Earlier(i) == {steps[j] : j \in 1..(i - 1)}

\* Every delivery step was allowed by the steps before it.
GatedOrder ==
    \A i \in DOMAIN steps :
        /\ steps[i].step = "deploy_to_org" =>
              {Step("proceed", TRUE), Step("create_project", TRUE),
               Step("implement_code", TRUE), Step("confirm", TRUE)} \subseteq Earlier(i)
        /\ steps[i].step \in {"verify_deployment", "cleanup_project"} =>
              Step("deploy_to_org", TRUE) \in Earlier(i)

\* C26: deploy_to_org runs only after create_project and implement_code
\* returned True and the user confirmed both prompts, verify_deployment
\* and cleanup_project only after deploy_to_org returned True, and no
\* step follows a step that failed or was declined.
C26_GatedOrder ==
    /\ GatedOrder
    /\ \A i \in DOMAIN steps : i < Len(steps) => steps[i].ok

\* What holds of C26: the gates, and every failed or declined step other
\* than verify_deployment is the last step of the run.
C26_GatedOrderButVerification ==
    /\ GatedOrder
    /\ \A i \in DOMAIN steps :
          (i < Len(steps) /\ steps[i].step # "verify_deployment") => steps[i].ok
    /\ (steps # <<>> /\ ~steps[Len(steps)].ok /\ steps[Len(steps)].step # "verify_deployment")
          => mpc \in {"exit0", "exit1"}

\* A step in which discover_object is called, and its (org, object) pair.
DiscoverStep == ocall'.n # ocall.n /\ ocall'.op = "discover_object"
Pair(c) == <<c.org_alias, c.object_name>>
Pairs == OrgAliases \X ObjectNames
FileOf(pair) == cache_file(pair[1], pair[2])
EntryOf(pair) == cache[FileOf(pair)]

\* The metadata of the most recent fetch for the pair, None when there was none.
RECURSIVE LastFetchFrom(_, _)
LastFetchFrom(pair, i) ==
    IF i = 0 THEN None
    ELSE IF Pair(fetchlog[i]) = pair THEN fetchlog[i].metadata
    ELSE LastFetchFrom(pair, i - 1)
LastFetch(pair) == LastFetchFrom(pair, Len(fetchlog))

\* The call found an entry for its pair and was allowed to use it.
CacheHit == ocall'.use_cache /\ EntryOf(Pair(ocall')) # None

\* The call answers from the cache, or fetches and overwrites the entry.
RoundTrip ==
    LET pair == Pair(ocall') IN
    IF CacheHit
    THEN ocall'.ret = LastFetch(pair) /\ fetchlog' = fetchlog /\ cache' = cache
    ELSE /\ fetchlog' = Append(fetchlog, Fetch(pair[2], pair[1], ocall'.ret))
         /\ cache'[FileOf(pair)] # None
         /\ cache'[FileOf(pair)].metadata = ocall'.ret

\* C28: with an entry for the pair and use_cache, discover_object returns
\* the metadata of the most recent fetch for that pair and fetches nothing;
\* otherwise it fetches and overwrites the entry; and it leaves the entry
\* of every other (org, object) pair as it was.
C28_CacheRoundTrip ==
    [][DiscoverStep =>
         /\ RoundTrip
         /\ \A other \in Pairs \ {Pair(ocall')} : EntryOf(other)' = EntryOf(other)]_vars

\* What holds of C28: the round trip, and the entries kept apart, for the
\* pairs whose cache file no other pair in use shares.
SharesFile(pair) ==
    \E other \in Pairs \ {pair} : FileOf(other) = FileOf(pair)

C28_CacheRoundTripOwnFile ==
    [][(DiscoverStep /\ ~SharesFile(Pair(ocall'))) =>
         /\ RoundTrip
         /\ \A other \in Pairs \ {Pair(ocall')} : EntryOf(other)' = EntryOf(other)]_vars

\* C29: a fetch that failed leaves no cache entry, so no entry holds None
\* as its metadata and no later call answers None from the cache.
C29_FailedFetchNotCached ==
    /\ \A f \in CacheFiles : cache[f] # None => cache[f].metadata # None
    /\ (ocall.op = "discover_object" /\ ocall.ret = None) =>
          (fetchlog # <<>> /\ fetchlog[Len(fetchlog)] = Fetch(ocall.object_name, ocall.org_alias, None))

\* The answer changes the filter: c, all or s:keyword, in any case.
ChangesFilter(ch) ==
    \/ Lower(ch) \in {<<"c">>, <<"a", "l", "l">>}
    \/ StartsWith(Lower(ch), <<"s", ":">>)

\* The rows of every page of the filtered list.
DisplayedRows ==
    UNION {Range(display_objects_table(current_objects, page).rows) :
             page \in 1..TotalPages(current_objects)}

\* C30: in select_object_interactive current_page stays within
\* 1 .. max(1, pages of the filtered list), every change of the filter
\* puts it back to 1, and a number k typed with 1 <= k <= size of the
\* filtered list returns the name shown with number k in that list.
C30_PageInRangeAndChoiceShown ==
    /\ spc = "prompt" => current_page \in 1..Max(1, TotalPages(current_objects))
    /\ (spc = "prompt" /\ ChangesFilter(choice)) => current_page = 1
    /\ (spc \in {"prompt", "returned"} /\ IsDigit(choice)
          /\ 1 <= ParseInt(choice) /\ ParseInt(choice) <= Len(current_objects)) =>
             /\ spc = "returned"
             /\ \E row \in DisplayedRows : ParseInt(row.number) = ParseInt(choice) /\ row.name = selected
             /\ \A row \in DisplayedRows : ParseInt(row.number) = ParseInt(choice) => row.name = selected

\* An object of the second page of a filtered list has been selected by
\* its number, after the pages were turned.
C30_Witness ==
    /\ spc = "returned"
    /\ IsDigit(choice)
    /\ ParseInt(choice) > PerPage /\ ParseInt(choice) <= Len(current_objects)
    /\ Len(current_objects) < Len(objects)
    /\ current_page = 2
    /\ selected = current_objects[ParseInt(choice)].name
====
